---- MODULE Spec2Model ----
(***************************************************************************)
(* A model of crop.py (PDF auto-cropper): the content bounding-box         *)
(* detector get_content_bbox, the margin statistics of                     *)
(* analyze_pdf_margins, the uniform-canvas transform of crop_pdf and the   *)
(* explicit-rectangle crop of PDFCropGUI.crop_pdf.                         *)
(*                                                                         *)
(* Numbers that are Python floats in the source are exact rationals here,  *)
(* a pair <<n, d>> in lowest terms with d > 0, so that equal values are    *)
(* equal tuples.  A rectangle is a record [x0, y0, x1, y1] of rationals.   *)
(***************************************************************************)
EXTENDS Integers, Sequences, FiniteSets, TLC

VARIABLES
    \* get_content_bbox
    page,                  \* page.rect of the page being analysed
    ink,                   \* the pixels <<row, col>> of img_array that are not white
    level,                 \* the grey level of the inked pixels (the others are 255)
    footer_height_ratio,   \* the footer_height_ratio argument
    bbox,                  \* the rectangle returned, NoRect before the call returns
    dpc,                   \* "start" before the call, "done" after it
    \* analyze_pdf_margins
    doc,                   \* the document: a sequence of rendered pages
    buffer,                \* the buffer argument
    content_boxes,         \* content_boxes, one rectangle per analysed page
    page_sizes,            \* page_sizes, the page.rect of each analysed page
    suggested,             \* the tuple returned, <<>> before the call returns
    apc,                   \* "idle", "sampling" (in the page loop) or "done"
    \* crop_pdf
    crop,                  \* <<left, top, right, bottom>>, None where not given
    max_width,             \* max_width
    max_height,            \* max_height
    page_num,              \* page_num of the running loop
    output_doc,            \* output_doc: the pages created so far
    page_counts,           \* <<original_page_count, output_page_count>>
    cpc,                   \* "idle", "args", "pass1", "pass2" or "done"
    \* PDFCropGUI
    min_page,              \* self.min_page (1-based)
    max_page,              \* self.max_page (1-based)
    min_page_spinbox,      \* self.min_page_spinbox.value()
    max_page_spinbox,      \* self.max_page_spinbox.value()
    current_page,          \* self.current_page (0-based)
    view_crop_rect,        \* self.pdf_view.crop_rect: <<x, y, width, height>> or None
    preview_crop_range_only, \* self.preview_crop_range_only
    persistent_crop_rect,  \* self.persistent_crop_rect: a rectangle or None
    selection_rect,        \* self.pdf_view.selection_rect: the item and its rectangle
    start_pos,             \* self.pdf_view.start_pos, None while the attribute is not set
    button_down,           \* the left mouse button is held down over the view
    drawn,                 \* history: the rectangle of the drag completed last, None
                           \* before the first one and from the next mouse press on
    \* PDFCropGUI.crop_pdf
    gui_crop_rect,         \* crop_rect, the selection in PDF coordinates
    most_common_size,      \* most_common_size
    out_pages,             \* output_doc: the pages written so far
    cropped_pages,         \* cropped_pages
    unchanged_pages,       \* unchanged_pages
    gpage,                 \* page_num of the loop of crop_pdf
    gpc                    \* "off", "idle", "cropping" or "saved"

detectVars == <<page, ink, level, bbox, dpc>>
marginVars == <<doc, buffer, content_boxes, page_sizes, suggested, apc>>
cropVars == <<crop, max_width, max_height, page_num, output_doc, page_counts, cpc>>
guiVars == <<min_page, max_page, min_page_spinbox, max_page_spinbox, current_page,
             view_crop_rect>>
manualVars == <<gui_crop_rect, most_common_size, out_pages, cropped_pages, unchanged_pages,
                gpage, gpc>>
navVars == <<preview_crop_range_only, persistent_crop_rect, selection_rect, start_pos,
             button_down, drawn>>
vars == <<detectVars, footer_height_ratio, marginVars, cropVars, guiVars, manualVars,
          navVars>>

-----------------------------------------------------------------------------
(* Exact arithmetic on rationals.                                          *)

Abs(x) == IF x < 0 THEN -x ELSE x

RECURSIVE GCD(_, _)
GCD(a, b) == IF b = 0 THEN a ELSE GCD(b, a % b)

\* the rational n/d in lowest terms, d # 0
Rat(n, d) ==
    LET g == GCD(Abs(n), Abs(d))
        s == IF d < 0 THEN -1 ELSE 1
    IN  <<(s * n) \div g, (s * d) \div g>>

RInt(i) == <<i, 1>>
RAdd(a, b) == Rat(a[1] * b[2] + b[1] * a[2], a[2] * b[2])
RSub(a, b) == Rat(a[1] * b[2] - b[1] * a[2], a[2] * b[2])
RMul(a, b) == Rat(a[1] * b[1], a[2] * b[2])
RDiv(a, b) == Rat(a[1] * b[2], a[2] * b[1])
RLe(a, b) == a[1] * b[2] <= b[1] * a[2]
RLt(a, b) == a[1] * b[2] < b[1] * a[2]
RMax(a, b) == IF RLe(a, b) THEN b ELSE a
RMin(a, b) == IF RLe(a, b) THEN a ELSE b
\* int(x) of Python for a rational x >= 0
RFloor(a) == a[1] \div a[2]

Zero == RInt(0)
One == RInt(1)

\* the function f on 1..n as a sequence of n values, each evaluated once
ToSeq(f) == SubSeq(f, 1, Len(f))

-----------------------------------------------------------------------------
(* fitz.Rect                                                               *)

Rect(x0, y0, x1, y1) == [x0 |-> x0, y0 |-> y0, x1 |-> x1, y1 |-> y1]
RectWidth(r) == RSub(r.x1, r.x0)
RectHeight(r) == RSub(r.y1, r.y0)
\* a page whose rect has integer corners: origin (ox, oy), w by h points
PageRect(ox, oy, w, h) == Rect(RInt(ox), RInt(oy), RInt(ox + w), RInt(oy + h))

NoRect == [x0 |-> <<0, 0>>]

-----------------------------------------------------------------------------
(* get_content_bbox                                                        *)

\* fitz.Matrix(2, 2): the zoom of the rendering
ZOOM == 2
\* the white level of an 8-bit grey image
WHITE == 255
\* threshold = 0.95 and the gap of 2% of the page height, as fractions
THRESHOLD == <<19, 20>>
GAP_RATIO == <<1, 50>>

\* pix.width, pix.height of the page rendered at ZOOM
PixWidth(p) == RFloor(RMul(RInt(ZOOM), RectWidth(p)))
PixHeight(p) == RFloor(RMul(RInt(ZOOM), RectHeight(p)))

IsContentNoThreshold(v) == v < WHITE
\* content_mask = img_array < (255 * threshold)
IsContent(v) == v * THRESHOLD[2] < WHITE * THRESHOLD[1]

\* the pixels at which content_mask is True: img_array is lv at the inked
\* pixels and WHITE at all the others
ContentMask(p, inked, lv) ==
    (IF IsContent(lv) THEN inked ELSE {})
    \cup (IF IsContent(WHITE)
          THEN ((0..(PixHeight(p) - 1)) \X (0..(PixWidth(p) - 1))) \ inked
          ELSE {})
\* np.where(rows)[0] and np.where(cols)[0], as sets
RowsOf(mask) == {px[1] : px \in mask}
ColsOf(mask) == {px[2] : px \in mask}

SetMin(S) == CHOOSE x \in S : \A y \in S : x <= y
SetMax(S) == CHOOSE x \in S : \A y \in S : y <= x

\* the elements of a set of integers in ascending order
RECURSIVE SortedSeq(_)
SortedSeq(S) == IF S = {} THEN <<>> ELSE <<SetMin(S)>> \o SortedSeq(S \ {SetMin(S)})

\* footer_start = int(page_height * (1 - footer_height_ratio))
FooterStart(page_height, ratio) == RFloor(RMul(RInt(page_height), RSub(One, ratio)))
\* gap_threshold = int(page_height * 0.02)
GapThreshold(page_height) == RFloor(RMul(RInt(page_height), GAP_RATIO))

RECURSIVE ScanGapsFromBandStart(_, _, _, _, _)
ScanGapsFromBandStart(content_rows, i, gap_threshold, footer_start, y_max) ==
    IF i < 2 THEN y_max
    ELSE IF /\ content_rows[i] - content_rows[i - 1] > gap_threshold
            /\ content_rows[i] >= footer_start
         THEN content_rows[i - 1]
         ELSE ScanGapsFromBandStart(content_rows, i - 1, gap_threshold,
                                    footer_start, y_max)

\* the loop "for i in range(len(content_rows) - 1, 0, -1)", from index i down
\* (content_rows is 1-based here); its value is main_content_end
RECURSIVE ScanGaps(_, _, _, _, _)
ScanGaps(content_rows, i, gap_threshold, footer_start, y_max) ==
    IF i < 2 THEN y_max
    ELSE IF /\ content_rows[i] - content_rows[i - 1] > gap_threshold
            /\ content_rows[i] > footer_start
         THEN content_rows[i - 1]
         ELSE ScanGaps(content_rows, i - 1, gap_threshold, footer_start, y_max)

\* lines 53-78: y_max after the footer handling, from the set of content rows
\* of an image of page_height rows
BottomRow(rows, page_height, ratio) ==
    LET y_min == SetMin(rows)
        y_max == SetMax(rows)
        footer_start == FooterStart(page_height, ratio)
        content_rows == SortedSeq(rows)
        main_content_end ==
            ScanGaps(content_rows, Len(content_rows), GapThreshold(page_height),
                     footer_start, y_max)
    IN  IF \E r \in rows : r >= footer_start
        THEN IF main_content_end < y_max /\ main_content_end > y_min
             THEN main_content_end
             ELSE y_max
        ELSE y_max

ToPdfNoZoom(origin, px) == RAdd(origin, RInt(px))
\* page_rect.x0 + (x_min / 2)
ToPdf(origin, px) == RAdd(origin, Rat(px, ZOOM))

\* lines 48-49 and 80-87: the box of the content rows and columns
BoxOf(p, rows, cols, ratio) ==
    Rect(ToPdf(p.x0, SetMin(cols)), ToPdf(p.y0, SetMin(rows)),
         ToPdf(p.x0, SetMax(cols)),
         ToPdf(p.y0, BottomRow(rows, PixHeight(p), ratio)))

get_content_bbox(p, inked, lv, ratio) ==
    LET content_mask == ContentMask(p, inked, lv)
        rows == RowsOf(content_mask)
        cols == ColsOf(content_mask)
    IN  \* "If no content found, return full page"
        IF rows = {} \/ cols = {} THEN p ELSE BoxOf(p, rows, cols, ratio)

-----------------------------------------------------------------------------
(* The pages and pixel grids get_content_bbox is run on.                   *)

\* the height and width, in points, of the pages analysed
PageH == 25
PageW == 1
\* the largest number of inked pixels on a page
MaxInk == 3

DetectPages == {PageRect(0, 0, PageW, PageH), PageRect(1, 2, PageW, PageH)}
\* --footer-height is validated to lie in [0.05, 0.2]; 0.1 is the default
FooterRatios == {<<1, 10>>, <<1, 5>>}
\* grey levels on either side of 255 * 0.95 = 242.25
InkLevels == {242, 243}

\* the rows that may carry ink: the top of the page and the rows around and
\* inside the footer bands; the columns: the first and the last
InkRows(p) ==
    {0, 1} \cup ((FooterStart(PixHeight(p), <<1, 5>>) - 1)..(PixHeight(p) - 1))
InkCols(p) == {0, PixWidth(p) - 1}
InkPixels(p) == InkRows(p) \X InkCols(p)

RECURSIVE SubsetsUpTo(_, _)
SubsetsUpTo(S, k) ==
    IF k = 0 THEN {{}}
    ELSE LET smaller == SubsetsUpTo(S, k - 1)
         IN  smaller \cup {T \cup {x} : T \in smaller, x \in S}

-----------------------------------------------------------------------------
(* analyze_pdf_margins                                                     *)

\* ascending order of a sequence of rationals (the sort inside np.percentile):
\* the element at position i goes to the position that counts the elements
\* below it and the equal ones before it
SortRat(a) ==
    LET n == Len(a)
        before(i) ==
            Cardinality({j \in 1..n : RLt(a[j], a[i]) \/ (a[j] = a[i] /\ j < i)})
    IN  ToSeq([k \in 1..n |-> a[CHOOSE i \in 1..n : before(i) = k - 1]])

\* the q-th percentile of an ascending sequence s, numpy's default (linear)
\* method: the value at the virtual index (n - 1) * q / 100, interpolated
\* between its two neighbours
Interpolate(s, q) ==
    LET pos == Rat((Len(s) - 1) * q, 100)
        lo == RFloor(pos)
        frac == RSub(pos, RInt(lo))
    IN  IF lo + 2 > Len(s) THEN s[lo + 1]
        ELSE RAdd(s[lo + 1], RMul(frac, RSub(s[lo + 2], s[lo + 1])))

PercentileUnsorted(a, q) == Interpolate(a, q)
\* np.percentile(a, q)
np_percentile(a, q) == Interpolate(SortRat(a), q)

\* the percentile the margins are taken at
PERCENTILE == 25

\* lines 126-135: the four raw margins of one page, each clamped at 0
left_margin(content_box, page_rect) ==
    RMax(Zero, RDiv(RSub(content_box.x0, page_rect.x0), RectWidth(page_rect)))
top_margin(content_box, page_rect) ==
    RMax(Zero, RDiv(RSub(content_box.y0, page_rect.y0), RectHeight(page_rect)))
right_margin(content_box, page_rect) ==
    RMax(Zero, RDiv(RSub(page_rect.x1, content_box.x1), RectWidth(page_rect)))
bottom_margin(content_box, page_rect) ==
    RMax(Zero, RDiv(RSub(page_rect.y1, content_box.y1), RectHeight(page_rect)))

SuggestBufferAdded(margin_list, buf) ==
    RMax(Zero, RAdd(np_percentile(margin_list, PERCENTILE), buf))
SuggestMinimum(margin_list, buf) ==
    RMax(Zero, RSub(SortRat(margin_list)[1], buf))
\* max(0, np.percentile(margins, 25) - buffer)
Suggest(margin_list, buf) ==
    RMax(Zero, RSub(np_percentile(margin_list, PERCENTILE), buf))

\* lines 120-144: (suggested_left, suggested_top, suggested_right, suggested_bottom)
AggregateMargins(b, r, buf) ==
    LET n == Len(b)
        left_margins == ToSeq([k \in 1..n |-> left_margin(b[k], r[k])])
        top_margins == ToSeq([k \in 1..n |-> top_margin(b[k], r[k])])
        right_margins == ToSeq([k \in 1..n |-> right_margin(b[k], r[k])])
        bottom_margins == ToSeq([k \in 1..n |-> bottom_margin(b[k], r[k])])
    IN  <<Suggest(left_margins, buf), Suggest(top_margins, buf),
          Suggest(right_margins, buf), Suggest(bottom_margins, buf)>>

-----------------------------------------------------------------------------
(* crop_pdf                                                                *)

\* an argument that was not given (no rational has denominator 0)
None == <<0, 0>>

\* analyze_pdf_margins(input_path, buffer=buffer, footer_height_ratio=...)
analyze_pdf_margins(d, buf, ratio) ==
    AggregateMargins(
        ToSeq([k \in 1..Len(d) |->
                  get_content_bbox(d[k].rect, d[k].ink, d[k].level, ratio)]),
        ToSeq([k \in 1..Len(d) |-> d[k].rect]), buf)

\* lines 155-162: the margins given, the others taken from the analysis
ResolvedMargins(given, d, buf, ratio) ==
    IF \E k \in 1..4 : given[k] = None
    THEN LET auto == analyze_pdf_margins(d, buf, ratio)
         IN  ToSeq([k \in 1..4 |-> IF given[k] # None THEN given[k] ELSE auto[k]])
    ELSE given

\* lines 175-178 and 196-201: crop_rect of a page
CropRect(page_rect, m) ==
    Rect(RAdd(page_rect.x0, RMul(RectWidth(page_rect), m[1])),
         RAdd(page_rect.y0, RMul(RectHeight(page_rect), m[2])),
         RSub(page_rect.x1, RMul(RectWidth(page_rect), m[3])),
         RSub(page_rect.y1, RMul(RectHeight(page_rect), m[4])))

AxisScaleInverted(max_size, cropped_size) ==
    IF RLt(Zero, cropped_size) THEN RDiv(cropped_size, max_size) ELSE One
AxisScaleNonzero(max_size, cropped_size) ==
    IF cropped_size # Zero THEN RDiv(max_size, cropped_size) ELSE One
\* lines 210-211: max_width / cropped_width if cropped_width > 0 else 1
AxisScale(max_size, cropped_size) ==
    IF RLt(Zero, cropped_size) THEN RDiv(max_size, cropped_size) ELSE One

NewPageStretched(src, page_rect, m, mw, mh) ==
    LET clip == CropRect(page_rect, m)
        scale_x == AxisScale(mw, RectWidth(clip))
        scale_y == AxisScale(mh, RectHeight(clip))
        scaled_width == RMul(RectWidth(clip), scale_x)
        scaled_height == RMul(RectHeight(clip), scale_y)
        offset_x == RDiv(RSub(mw, scaled_width), RInt(2))
        offset_y == RDiv(RSub(mh, scaled_height), RInt(2))
    IN  [src |-> src, width |-> mw, height |-> mh,
         scale |-> scale_x, offset_x |-> offset_x, offset_y |-> offset_y,
         target_rect |-> Rect(offset_x, offset_y, RAdd(offset_x, scaled_width),
                              RAdd(offset_y, scaled_height)),
         clip |-> clip]
NewPageCroppedSize(src, page_rect, m, mw, mh) ==
    [src |-> src, width |-> RectWidth(CropRect(page_rect, m)),
     height |-> RectHeight(CropRect(page_rect, m))]
\* lines 196-228: the page created for page.rect = page_rect, its size, the
\* scale and offsets, target_rect and the clip
NewPage(src, page_rect, m, mw, mh) ==
    LET crop_rect == CropRect(page_rect, m)
        cropped_width == RectWidth(crop_rect)
        cropped_height == RectHeight(crop_rect)
        scale_x == AxisScale(mw, cropped_width)
        scale_y == AxisScale(mh, cropped_height)
        scale == RMin(scale_x, scale_y)
        scaled_width == RMul(cropped_width, scale)
        scaled_height == RMul(cropped_height, scale)
        offset_x == RDiv(RSub(mw, scaled_width), RInt(2))
        offset_y == RDiv(RSub(mh, scaled_height), RInt(2))
    IN  [src |-> src, width |-> mw, height |-> mh,
         scale |-> scale, offset_x |-> offset_x, offset_y |-> offset_y,
         target_rect |-> Rect(offset_x, offset_y, RAdd(offset_x, scaled_width),
                              RAdd(offset_y, scaled_height)),
         clip |-> crop_rect]

-----------------------------------------------------------------------------
(* PDFCropGUI.crop_pdf                                                     *)

\* self.render_scale_factor = 2.0
RENDER_SCALE == 2

\* round(x) of Python for x >= 0: the nearest integer, the even one of the two
\* when x lies halfway
PyRound(x) ==
    LET n == RFloor(x)
        frac == RSub(x, RInt(n))
    IN  IF RLt(frac, <<1, 2>>) THEN n
        ELSE IF RLt(<<1, 2>>, frac) THEN n + 1
        ELSE IF n % 2 = 0 THEN n ELSE n + 1

\* lines 574-576 and 611-612: (round(page.rect.width), round(page.rect.height))
RoundedSize(page_rect) == <<PyRound(RectWidth(page_rect)), PyRound(RectHeight(page_rect))>>

\* lines 570-579: size_counts.most_common(1)[0][0], the first of the sizes
\* with the largest count in the order of the pages
MostCommonSize(d) ==
    LET size(k) == RoundedSize(d[k].rect)
        count(k) == Cardinality({j \in 1..Len(d) : size(j) = size(k)})
        first == CHOOSE k \in 1..Len(d) :
                    /\ \A j \in 1..Len(d) : count(j) <= count(k)
                    /\ \A j \in 1..(k - 1) : count(j) < count(k)
    IN  size(first)

\* max(0, min(v, limit))
Clamp(v, limit) == RMax(Zero, RMin(v, limit))

\* lines 551-566: the selection, in scene coordinates, as a rectangle in PDF
\* coordinates clamped to the page shown
SelectionToPdf(view_rect, page_rect) ==
    LET x == RInt(view_rect[1])
        y == RInt(view_rect[2])
        scale == RInt(RENDER_SCALE)
        pdf_x1 == RDiv(x, scale)
        pdf_y1 == RDiv(y, scale)
        pdf_x2 == RDiv(RAdd(x, RInt(view_rect[3])), scale)
        pdf_y2 == RDiv(RAdd(y, RInt(view_rect[4])), scale)
    IN  Rect(Clamp(pdf_x1, RectWidth(page_rect)), Clamp(pdf_y1, RectHeight(page_rect)),
             Clamp(pdf_x2, RectWidth(page_rect)), Clamp(pdf_y2, RectHeight(page_rect)))

\* a QGraphicsRectItem the view refers to: its rectangle and whether it is in
\* the scene ("live"), deleted by scene.clear() ("deleted"), or there is no
\* item ("none")
SceneItem(r, state) == [rect |-> r, item |-> state]
NoItem == SceneItem(None, "none")

\* QRectF(p, q).normalized() as <<x, y, width, height>>
NormalizedRect(p, q) ==
    <<IF p[1] <= q[1] THEN p[1] ELSE q[1], IF p[2] <= q[2] THEN p[2] ELSE q[2],
      Abs(q[1] - p[1]), Abs(q[2] - p[2])>>

\* lines 426-440: the Previous button is enabled
prev_enabled(cp, lo, hi, preview) ==
    IF preview THEN \E pg \in 0..(cp - 1) : lo <= pg + 1 /\ pg + 1 <= hi
    ELSE cp > 0
\* lines 426-440: the Next button is enabled
next_enabled(cp, lo, hi, preview, n) ==
    IF preview THEN \E pg \in (cp + 1)..(n - 1) : lo <= pg + 1 /\ pg + 1 <= hi
    ELSE cp < n - 1

\* lines 452-465: current_page after prev_page
PrevTarget(cp, lo, hi, preview) ==
    IF preview
    THEN LET inrange == {pg \in 0..(cp - 1) : lo <= pg + 1 /\ pg + 1 <= hi}
         IN  IF inrange = {} THEN cp
             ELSE CHOOSE pg \in inrange : \A other \in inrange : other <= pg
    ELSE IF cp > 0 THEN cp - 1 ELSE cp
\* lines 470-483: current_page after next_page
NextTarget(cp, lo, hi, preview, n) ==
    IF preview
    THEN LET inrange == {pg \in (cp + 1)..(n - 1) : lo <= pg + 1 /\ pg + 1 <= hi}
         IN  IF inrange = {} THEN cp
             ELSE CHOOSE pg \in inrange : \A other \in inrange : pg <= other
    ELSE IF cp < n - 1 THEN cp + 1 ELSE cp

\* lines 490-493: persistent_crop_rect after update_persistent_crop
update_persistent_crop(view_rect, persistent) ==
    IF view_rect # None THEN view_rect ELSE persistent

\* lines 519-524: current_page after toggle_preview_mode has set the mode
ToggleTarget(cp, lo, hi, preview) ==
    IF preview /\ ~(lo <= cp + 1 /\ cp + 1 <= hi) THEN lo - 1 ELSE cp

InCropRangeExclusive(current_page_num, lo, hi) == lo <= current_page_num /\ current_page_num < hi
\* line 616: self.min_page <= current_page_num <= self.max_page
InCropRange(current_page_num, lo, hi) == lo <= current_page_num /\ current_page_num <= hi

\* lines 610-630: the page written for page n (0-based)
WrittenPage(n, page_rect, lo, hi, common, target) ==
    IF InCropRange(n + 1, lo, hi) /\ RoundedSize(page_rect) = common
    THEN [src |-> n, kind |-> "cropped",
          width |-> RectWidth(target), height |-> RectHeight(target)]
    ELSE [src |-> n, kind |-> "verbatim",
          width |-> RectWidth(page_rect), height |-> RectHeight(page_rect)]

-----------------------------------------------------------------------------
(* The documents analyze_pdf_margins is run on.                            *)

\* the largest number of pages of an analysed document
MaxDocPages == 3

RenderedPage(r, inked, lv) == [rect |-> r, ink |-> inked, level |-> lv]
\* a blank page; a page with content in its top-left pixel only; a page with
\* content in its middle; a page of another size with content in a corner
SamplePages ==
    { RenderedPage(PageRect(0, 0, 2, 2), {}, 0),
      RenderedPage(PageRect(0, 0, 2, 2), {<<0, 0>>}, 0),
      RenderedPage(PageRect(0, 0, 2, 2), {<<1, 1>>, <<2, 2>>}, 0),
      RenderedPage(PageRect(1, 1, 3, 4), {<<7, 5>>}, 0) }
\* --buffer is validated to lie in [0, 0.1]; 0.01 is the default
Buffers == {Zero, <<1, 100>>, <<1, 10>>}

\* the largest number of pages of a document with one page unlike the others
MaxOutlierPages == 6
\* the documents of n pages, all of them the page base but for the page odd
\* at position pos
OnePageOdd(n) ==
    {[k \in 1..n |-> IF k = pos THEN odd ELSE base] :
        pos \in 1..n, odd \in SamplePages, base \in SamplePages}

SeqsUpTo(S, n) == UNION {[1..k -> S] : k \in 1..n}

\* the crop values given on the command line: each absent, or a fraction that
\* main accepts (0 <= value < 1)
CropValues == {None, <<1, 4>>, <<3, 4>>}
\* the largest number of pages of a document opened in the GUI
MaxGuiPages == 3
\* pages (without content) of 2 x 3, 2.5 x 3, 3.5 x 3 and 4 x 3 points
GuiPages ==
    {RenderedPage(Rect(Zero, Zero, w, RInt(3)), {}, WHITE) :
        w \in {RInt(2), <<5, 2>>, <<7, 2>>, RInt(4)}}
\* the selections drawn, <<x, y, width, height>> in scene pixels: inside the
\* page, and reaching beyond its right and bottom edges
Selections == {<<1, 1, 2, 1>>, <<1, 2, 8, 7>>, <<3, 2, 6, 7>>}

\* the scene positions the mouse is pressed at, moved to and released at
Points == {<<1, 1>>, <<3, 2>>, <<9, 9>>}
\* the documents opened in the GUI whose pages are all alike
PlainDocs == {[k \in 1..n |-> RenderedPage(PageRect(0, 0, 2, 3), {}, WHITE)] : n \in 1..MaxGuiPages}

\* the default buffer and footer_height_ratio
DEFAULT_BUFFER == <<1, 100>>
DEFAULT_FOOTER == <<1, 10>>

-----------------------------------------------------------------------------
(* Specifications.                                                         *)

DetectIdle ==
    /\ page = NoRect
    /\ ink = {}
    /\ level = WHITE
    /\ bbox = NoRect
    /\ dpc = "idle"

MarginsIdle ==
    /\ doc = <<>>
    /\ buffer = Zero
    /\ content_boxes = <<>>
    /\ page_sizes = <<>>
    /\ suggested = <<>>
    /\ apc = "idle"

CropIdle ==
    /\ crop = <<>>
    /\ max_width = Zero
    /\ max_height = Zero
    /\ page_num = 0
    /\ output_doc = <<>>
    /\ page_counts = <<>>
    /\ cpc = "idle"

GuiOff ==
    /\ min_page = 0
    /\ max_page = 0
    /\ min_page_spinbox = 0
    /\ max_page_spinbox = 0
    /\ current_page = 0
    /\ view_crop_rect = None
    /\ gui_crop_rect = NoRect
    /\ most_common_size = <<>>
    /\ out_pages = <<>>
    /\ cropped_pages = 0
    /\ unchanged_pages = 0
    /\ gpage = 0
    /\ gpc = "off"
    /\ preview_crop_range_only = FALSE
    /\ persistent_crop_rect = None
    /\ selection_rect = NoItem
    /\ start_pos = None
    /\ button_down = FALSE
    /\ drawn = None

DetectInit ==
    /\ page \in DetectPages
    /\ ink \in SubsetsUpTo(InkPixels(page), MaxInk)
    /\ level \in InkLevels
    /\ footer_height_ratio \in FooterRatios
    /\ bbox = NoRect
    /\ dpc = "start"
    /\ MarginsIdle
    /\ CropIdle
    /\ GuiOff

\* content_bbox = get_content_bbox(page, footer_height_ratio=...)
Detect ==
    /\ dpc = "start"
    /\ bbox' = get_content_bbox(page, ink, level, footer_height_ratio)
    /\ dpc' = "done"
    /\ UNCHANGED <<navVars, page, ink, level, footer_height_ratio, marginVars, cropVars, guiVars, manualVars>>

DetectNext == Detect

SpecDetect == DetectInit /\ [][DetectNext]_vars

MarginsInit ==
    /\ DetectIdle
    /\ doc \in SeqsUpTo(SamplePages, MaxDocPages)
    /\ buffer \in Buffers
    /\ footer_height_ratio \in FooterRatios
    /\ content_boxes = <<>>
    /\ page_sizes = <<>>
    /\ suggested = <<>>
    /\ apc = "sampling"
    /\ CropIdle
    /\ GuiOff

\* lines 110-116: one pass of "for i in sample_indices", every page being
\* sampled (page_count <= sample_pages)
AnalyzePage ==
    /\ apc = "sampling"
    /\ Len(content_boxes) < Len(doc)
    /\ LET pg == doc[Len(content_boxes) + 1]
       IN  /\ content_boxes' =
                Append(content_boxes,
                       get_content_bbox(pg.rect, pg.ink, pg.level, footer_height_ratio))
           /\ page_sizes' = Append(page_sizes, pg.rect)
    /\ UNCHANGED <<navVars, detectVars, footer_height_ratio, doc, buffer, suggested, apc, cropVars, guiVars, manualVars>>

\* lines 118-144: after the loop, the margins of every page and their percentiles
Aggregate ==
    /\ apc = "sampling"
    /\ Len(content_boxes) = Len(doc)
    /\ suggested' = AggregateMargins(content_boxes, page_sizes, buffer)
    /\ apc' = "done"
    /\ UNCHANGED <<navVars, detectVars, footer_height_ratio, doc, buffer, content_boxes, page_sizes,
                   cropVars, guiVars, manualVars>>

MarginsNext == AnalyzePage \/ Aggregate

SpecMargins == MarginsInit /\ [][MarginsNext]_vars

CropInit ==
    /\ DetectIdle
    /\ doc \in SeqsUpTo(SamplePages, MaxDocPages)
    /\ buffer = DEFAULT_BUFFER
    /\ footer_height_ratio = DEFAULT_FOOTER
    /\ content_boxes = <<>>
    /\ page_sizes = <<>>
    /\ suggested = <<>>
    /\ apc = "idle"
    /\ crop \in [1..4 -> CropValues]
    /\ max_width = Zero
    /\ max_height = Zero
    /\ page_num = 0
    /\ output_doc = <<>>
    /\ page_counts = <<>>
    /\ cpc = "args"
    /\ GuiOff

\* lines 152-168: the margins not given are taken from analyze_pdf_margins
ResolveMargins ==
    /\ cpc = "args"
    /\ crop' = ResolvedMargins(crop, doc, buffer, footer_height_ratio)
    /\ max_width' = Zero
    /\ max_height' = Zero
    /\ page_num' = 0
    /\ cpc' = "pass1"
    /\ UNCHANGED <<navVars, detectVars, footer_height_ratio, marginVars, guiVars, manualVars, output_doc, page_counts>>

\* lines 170-184: one pass of the first loop
MeasurePage ==
    /\ cpc = "pass1"
    /\ page_num < Len(doc)
    /\ LET crop_rect == CropRect(doc[page_num + 1].rect, crop)
       IN  /\ max_width' = RMax(max_width, RectWidth(crop_rect))
           /\ max_height' = RMax(max_height, RectHeight(crop_rect))
    /\ page_num' = page_num + 1
    /\ UNCHANGED <<navVars, detectVars, footer_height_ratio, marginVars, guiVars, manualVars, crop, output_doc,
                   page_counts, cpc>>

\* lines 186-189: output_doc = fitz.open()
OpenOutput ==
    /\ cpc = "pass1"
    /\ page_num = Len(doc)
    /\ output_doc' = <<>>
    /\ page_num' = 0
    /\ cpc' = "pass2"
    /\ UNCHANGED <<navVars, detectVars, footer_height_ratio, marginVars, guiVars, manualVars, crop, max_width,
                   max_height, page_counts>>

\* lines 191-232: one pass of the second loop
PlacePage ==
    /\ cpc = "pass2"
    /\ page_num < Len(doc)
    /\ output_doc' =
            Append(output_doc,
                   NewPage(page_num, doc[page_num + 1].rect, crop, max_width, max_height))
    /\ page_num' = page_num + 1
    /\ UNCHANGED <<navVars, detectVars, footer_height_ratio, marginVars, guiVars, manualVars, crop, max_width,
                   max_height, page_counts, cpc>>

\* lines 234-246: the page counts, and the output is saved
SaveOutput ==
    /\ cpc = "pass2"
    /\ page_num = Len(doc)
    /\ page_counts' = <<Len(doc), Len(output_doc)>>
    /\ cpc' = "done"
    /\ UNCHANGED <<navVars, detectVars, footer_height_ratio, marginVars, guiVars, manualVars, crop, max_width,
                   max_height, page_num, output_doc>>

CropNext == ResolveMargins \/ MeasurePage \/ OpenOutput \/ PlacePage \/ SaveOutput

SpecCrop == CropInit /\ [][CropNext]_vars


\* PDFCropGUI.__init__, and a selection drawn (or none) on the first page
ManualInit ==
    /\ DetectIdle
    /\ doc \in SeqsUpTo(GuiPages, MaxGuiPages)
    /\ buffer = Zero
    /\ footer_height_ratio = DEFAULT_FOOTER
    /\ content_boxes = <<>>
    /\ page_sizes = <<>>
    /\ suggested = <<>>
    /\ apc = "idle"
    /\ CropIdle
    /\ min_page = 1
    /\ max_page = Len(doc)
    /\ min_page_spinbox = 1
    /\ max_page_spinbox = Len(doc)
    /\ current_page = 0
    /\ view_crop_rect \in Selections \cup {None}
    /\ gui_crop_rect = NoRect
    /\ most_common_size = <<>>
    /\ out_pages = <<>>
    /\ cropped_pages = 0
    /\ unchanged_pages = 0
    /\ gpage = 0
    /\ gpc = "idle"
    /\ preview_crop_range_only = FALSE
    /\ persistent_crop_rect = None
    /\ selection_rect =
            IF view_crop_rect = None THEN NoItem ELSE SceneItem(view_crop_rect, "live")
    /\ start_pos = IF view_crop_rect = None THEN None ELSE <<view_crop_rect[1], view_crop_rect[2]>>
    /\ button_down = FALSE
    /\ drawn = view_crop_rect

\* load_page, lines 389 and 441-448: the scene is cleared, which deletes the
\* selection item the view still refers to; a persistent selection, when there
\* is one, becomes the view's crop_rect and is drawn as a new item
load_page(persistent) ==
    /\ view_crop_rect' = IF persistent # None THEN persistent ELSE view_crop_rect
    /\ selection_rect' =
            IF persistent # None THEN SceneItem(persistent, "live")
            ELSE IF selection_rect.item = "none" THEN selection_rect
            ELSE SceneItem(selection_rect.rect, "deleted")

\* a handler of the GUI starts when no other is running; the locals of the
\* last crop_pdf are gone
HandlerStarts ==
    /\ gpc \in {"idle", "saved"}
    /\ gui_crop_rect' = NoRect
    /\ most_common_size' = <<>>
    /\ out_pages' = <<>>
    /\ cropped_pages' = 0
    /\ unchanged_pages' = 0
    /\ gpage' = 0

\* update_page_range with sender = min_page_spinbox: the user sets the "from"
\* spin box to v (lines 495-513, the nested call by setValue included)
SetMinPage(v) ==
    /\ HandlerStarts
    /\ v # min_page_spinbox
    /\ min_page_spinbox' = v
    /\ min_page' = v
    /\ max_page_spinbox' = IF v > max_page_spinbox THEN v ELSE max_page_spinbox
    /\ max_page' = IF v > max_page_spinbox THEN v ELSE max_page_spinbox
    /\ gpc' = "idle"
    /\ load_page(persistent_crop_rect)
    /\ UNCHANGED <<detectVars, footer_height_ratio, marginVars, cropVars, current_page,
                   preview_crop_range_only, persistent_crop_rect, start_pos, button_down,
                   drawn>>

\* update_page_range with sender = max_page_spinbox: the user sets the "to"
\* spin box to v
SetMaxPage(v) ==
    /\ HandlerStarts
    /\ v # max_page_spinbox
    /\ max_page_spinbox' = v
    /\ max_page' = v
    /\ min_page_spinbox' = IF min_page_spinbox > v THEN v ELSE min_page_spinbox
    /\ min_page' = IF min_page_spinbox > v THEN v ELSE min_page_spinbox
    /\ gpc' = "idle"
    /\ load_page(persistent_crop_rect)
    /\ UNCHANGED <<detectVars, footer_height_ratio, marginVars, cropVars, current_page,
                   preview_crop_range_only, persistent_crop_rect, start_pos, button_down,
                   drawn>>

\* crop_pdf, lines 531-533: no selection, a warning and nothing else
CropWithoutSelection ==
    /\ HandlerStarts
    /\ view_crop_rect = None
    /\ gpc' = "idle"
    /\ UNCHANGED <<navVars, detectVars, footer_height_ratio, marginVars, cropVars, guiVars>>

\* crop_pdf, lines 540-547: the file dialog is cancelled
CropCancelled ==
    /\ HandlerStarts
    /\ view_crop_rect # None
    /\ gpc' = "idle"
    /\ UNCHANGED <<navVars, detectVars, footer_height_ratio, marginVars, cropVars, guiVars>>

\* crop_pdf, lines 549-607: the crop rectangle, the most common size, and the
\* empty output document
CropBegin ==
    /\ gpc \in {"idle", "saved"}
    /\ view_crop_rect # None
    /\ gui_crop_rect' = SelectionToPdf(view_crop_rect, doc[current_page + 1].rect)
    /\ most_common_size' = MostCommonSize(doc)
    /\ out_pages' = <<>>
    /\ cropped_pages' = 0
    /\ unchanged_pages' = 0
    /\ gpage' = 0
    /\ gpc' = "cropping"
    /\ UNCHANGED <<navVars, detectVars, footer_height_ratio, marginVars, cropVars, guiVars>>

\* crop_pdf, lines 609-630: one pass of the loop over the pages
CropOnePage ==
    /\ gpc = "cropping"
    /\ gpage < Len(doc)
    /\ LET written == WrittenPage(gpage, doc[gpage + 1].rect, min_page, max_page,
                                  most_common_size, gui_crop_rect)
       IN  /\ out_pages' = Append(out_pages, written)
           /\ cropped_pages' = cropped_pages + (IF written.kind = "cropped" THEN 1 ELSE 0)
           /\ unchanged_pages' =
                unchanged_pages + (IF written.kind = "cropped" THEN 0 ELSE 1)
    /\ gpage' = gpage + 1
    /\ UNCHANGED <<navVars, detectVars, footer_height_ratio, marginVars, cropVars, guiVars,
                   gui_crop_rect, most_common_size, gpc>>

\* crop_pdf, lines 632-640: the output is saved and the summary shown
CropSave ==
    /\ gpc = "cropping"
    /\ gpage = Len(doc)
    /\ gpc' = "saved"
    /\ UNCHANGED <<navVars, detectVars, footer_height_ratio, marginVars, cropVars, guiVars,
                   gui_crop_rect, most_common_size, out_pages, cropped_pages,
                   unchanged_pages, gpage>>

ManualNext ==
    \/ \E v \in 1..Len(doc) : SetMinPage(v)
    \/ \E v \in 1..Len(doc) : SetMaxPage(v)
    \/ CropWithoutSelection
    \/ CropCancelled
    \/ CropBegin
    \/ CropOnePage
    \/ CropSave

SpecManual == ManualInit /\ [][ManualNext]_vars

\* PDFCropGUI.__init__ on a document whose pages are all alike
GuiInit ==
    /\ DetectIdle
    /\ doc \in PlainDocs
    /\ buffer = Zero
    /\ footer_height_ratio = DEFAULT_FOOTER
    /\ content_boxes = <<>>
    /\ page_sizes = <<>>
    /\ suggested = <<>>
    /\ apc = "idle"
    /\ CropIdle
    /\ min_page = 1
    /\ max_page = Len(doc)
    /\ min_page_spinbox = 1
    /\ max_page_spinbox = Len(doc)
    /\ current_page = 0
    /\ view_crop_rect = None
    /\ gui_crop_rect = NoRect
    /\ most_common_size = <<>>
    /\ out_pages = <<>>
    /\ cropped_pages = 0
    /\ unchanged_pages = 0
    /\ gpage = 0
    /\ gpc = "idle"
    /\ preview_crop_range_only = FALSE
    /\ persistent_crop_rect = None
    /\ selection_rect = NoItem
    /\ start_pos = None
    /\ button_down = FALSE
    /\ drawn = None

\* PDFCropView.mousePressEvent, lines 258-265. removeItem on an item that
\* scene.clear() has deleted uses freed memory: the call may return or fail
MousePress(pos) ==
    /\ HandlerStarts
    /\ ~button_down
    /\ button_down' = TRUE
    /\ start_pos' = pos
    /\ \/ /\ selection_rect.item \in {"none", "live"}
          /\ selection_rect' = NoItem
       \/ /\ selection_rect.item = "deleted"
          /\ selection_rect' \in {NoItem, selection_rect}
    /\ drawn' = None
    /\ gpc' = "idle"
    /\ UNCHANGED <<detectVars, footer_height_ratio, marginVars, cropVars, guiVars,
                   preview_crop_range_only, persistent_crop_rect>>

\* PDFCropView.mouseMoveEvent, lines 267-278, the mouse moved to pos
MouseMove(pos) ==
    /\ button_down
    /\ pos # start_pos
    /\ \/ /\ selection_rect.item \in {"none", "live"}
          /\ selection_rect' = SceneItem(NormalizedRect(start_pos, pos), "live")
       \/ /\ selection_rect.item = "deleted"
          /\ selection_rect' \in {SceneItem(NormalizedRect(start_pos, pos), "live"),
                                  selection_rect}
    /\ UNCHANGED <<detectVars, footer_height_ratio, marginVars, cropVars, guiVars,
                   manualVars, preview_crop_range_only, persistent_crop_rect, start_pos,
                   button_down, drawn>>

\* PDFCropView.mouseReleaseEvent, lines 280-283. rect() of a deleted item
\* reads freed memory: any rectangle, or the call fails
MouseRelease ==
    /\ button_down
    /\ button_down' = FALSE
    /\ \/ /\ selection_rect.item = "none"
          /\ UNCHANGED <<view_crop_rect, drawn>>
       \/ /\ selection_rect.item = "live"
          /\ view_crop_rect' = selection_rect.rect
          /\ drawn' = selection_rect.rect
       \/ /\ selection_rect.item = "deleted"
          /\ view_crop_rect' \in Selections \cup {view_crop_rect}
          /\ UNCHANGED drawn
    /\ UNCHANGED <<detectVars, footer_height_ratio, marginVars, cropVars, manualVars,
                   min_page, max_page, min_page_spinbox, max_page_spinbox, current_page,
                   preview_crop_range_only, persistent_crop_rect, selection_rect,
                   start_pos>>

\* prev_page, lines 450-466, on a click on the enabled Previous button
PrevPage ==
    /\ HandlerStarts
    /\ ~button_down
    /\ prev_enabled(current_page, min_page, max_page, preview_crop_range_only)
    /\ persistent_crop_rect' = update_persistent_crop(view_crop_rect, persistent_crop_rect)
    /\ current_page' = PrevTarget(current_page, min_page, max_page, preview_crop_range_only)
    /\ load_page(update_persistent_crop(view_crop_rect, persistent_crop_rect))
    /\ gpc' = "idle"
    /\ UNCHANGED <<detectVars, footer_height_ratio, marginVars, cropVars, min_page, max_page,
                   min_page_spinbox, max_page_spinbox, preview_crop_range_only, start_pos,
                   button_down, drawn>>

\* next_page, lines 468-484, on a click on the enabled Next button
NextPage ==
    /\ HandlerStarts
    /\ ~button_down
    /\ next_enabled(current_page, min_page, max_page, preview_crop_range_only, Len(doc))
    /\ persistent_crop_rect' = update_persistent_crop(view_crop_rect, persistent_crop_rect)
    /\ current_page' =
            NextTarget(current_page, min_page, max_page, preview_crop_range_only, Len(doc))
    /\ load_page(update_persistent_crop(view_crop_rect, persistent_crop_rect))
    /\ gpc' = "idle"
    /\ UNCHANGED <<detectVars, footer_height_ratio, marginVars, cropVars, min_page, max_page,
                   min_page_spinbox, max_page_spinbox, preview_crop_range_only, start_pos,
                   button_down, drawn>>

\* toggle_preview_mode, lines 515-528
TogglePreview ==
    /\ HandlerStarts
    /\ ~button_down
    /\ preview_crop_range_only' = ~preview_crop_range_only
    /\ current_page' = ToggleTarget(current_page, min_page, max_page, ~preview_crop_range_only)
    /\ load_page(persistent_crop_rect)
    /\ gpc' = "idle"
    /\ UNCHANGED <<detectVars, footer_height_ratio, marginVars, cropVars, min_page, max_page,
                   min_page_spinbox, max_page_spinbox, persistent_crop_rect, start_pos,
                   button_down, drawn>>

GuiNext ==
    \/ \E pos \in Points : MousePress(pos)
    \/ \E pos \in Points : MouseMove(pos)
    \/ MouseRelease
    \/ PrevPage
    \/ NextPage
    \/ TogglePreview
    \/ \E v \in 1..Len(doc) : ~button_down /\ SetMinPage(v)
    \/ \E v \in 1..Len(doc) : ~button_down /\ SetMaxPage(v)

SpecGui == GuiInit /\ [][GuiNext]_vars

-----------------------------------------------------------------------------
(* Claims about get_content_bbox, checked under SpecDetect.                *)

\* the content rows of the analysed grid, as the claims define them: the rows
\* holding a pixel whose intensity is below 255 * 0.95
DarkRows ==
    IF level * 100 < 255 * 95 THEN {px[1] : px \in ink} ELSE {}
GridRows == 2 * (page.y1[1] - page.y0[1])
\* floor(H * (1 - footerHeightRatio)) and floor(0.02 * H)
BandStart ==
    (GridRows * (footer_height_ratio[2] - footer_height_ratio[1]))
        \div footer_height_ratio[2]
GapLimit == (2 * GridRows) \div 100
\* the row the returned box ends at: y1 = page.y0 + row / 2
BoxBottomIs(row) == bbox.y1 = Rat(2 * page.y0[1] + row, 2)

\* C1: the box returned by get_content_bbox is a well-formed rectangle
\* contained in the page rectangle.
C1_BoxInsidePage ==
    dpc = "done" =>
        /\ RLe(page.x0, bbox.x0) /\ RLe(bbox.x0, bbox.x1) /\ RLe(bbox.x1, page.x1)
        /\ RLe(page.y0, bbox.y0) /\ RLe(bbox.y0, bbox.y1) /\ RLe(bbox.y1, page.y1)

\* C1 witness: a page with content whose footer was cut off, the box ending
\* strictly above the last content row.
C1_Witness ==
    /\ dpc = "done"
    /\ DarkRows # {}
    /\ page.x0 # Zero
    /\ \E r \in DarkRows : r < SetMax(DarkRows) /\ r > SetMin(DarkRows) /\ BoxBottomIs(r)

\* C2: a page without any content pixel yields exactly the page rectangle.
C2_BlankPageIsFullPage ==
    (dpc = "done" /\ \A px \in ink : ~(level * 100 < 255 * 95)) => bbox = page

\* C2 witness: an inked page whose ink is lighter than the threshold.
C2_Witness ==
    /\ dpc = "done"
    /\ ink # {}
    /\ level = 243
    /\ bbox = page

\* the pairs of consecutive content rows (by the index of the later row in the
\* sorted list) that are further apart than the gap limit, the later row being
\* at or after (strict = FALSE) or strictly after (strict = TRUE) the band start
FooterGaps(strict) ==
    LET cr == SortedSeq(DarkRows)
    IN  {i \in 2..Len(cr) :
            /\ cr[i] - cr[i - 1] > GapLimit
            /\ IF strict THEN cr[i] > BandStart ELSE cr[i] >= BandStart}
\* the content row before the first such gap met from the bottom
RowBeforeGap(strict) == SortedSeq(DarkRows)[SetMax(FooterGaps(strict)) - 1]

ErasedBelowBottom ==
    {px \in ink : \E r \in px[1]..(GridRows - 1) : BoxBottomIs(r)}

\* C4: detecting again on the grid with the rows below the detected bottom
\* erased returns the same box.
C4_TruncationIdempotent ==
    (dpc = "done" /\ DarkRows # {}) =>
        get_content_bbox(page, ErasedBelowBottom, level, footer_height_ratio) = bbox

-----------------------------------------------------------------------------
(* Claims about analyze_pdf_margins, checked under SpecMargins.            *)

\* C5: every margin returned by analyze_pdf_margins is at least 0 and
\* strictly below 1.
C5_MarginsInUnitInterval ==
    apc = "done" =>
        \A k \in 1..4 : RLe(Zero, suggested[k]) /\ RLt(suggested[k], One)

\* the samples in the order given by the permutation f of their positions
Permuted(a, f) == ToSeq([k \in 1..Len(a) |-> a[f[k]]])

\* C6: the margins returned are those of every permutation of the samples.
C6_OrderIndependent ==
    apc = "done" =>
        \A f \in Permutations(1..Len(doc)) :
            AggregateMargins(Permuted(content_boxes, f), Permuted(page_sizes, f),
                             buffer) = suggested

\* C6 witness: three or more samples whose left margins are neither in
\* ascending nor in descending order.
C6_Witness ==
    /\ apc = "done"
    /\ Len(doc) >= 3
    /\ LET l == [k \in 1..Len(doc) |-> left_margin(content_boxes[k], page_sizes[k])]
       IN  /\ RLt(l[2], l[1]) /\ RLt(l[2], l[3])
           /\ suggested[1] # Zero

\* the raw margin of sample k on edge e (1 left, 2 top, 3 right, 4 bottom)
RawMargin(e, k) ==
    IF e = 1 THEN left_margin(content_boxes[k], page_sizes[k])
    ELSE IF e = 2 THEN top_margin(content_boxes[k], page_sizes[k])
    ELSE IF e = 3 THEN right_margin(content_boxes[k], page_sizes[k])
    ELSE bottom_margin(content_boxes[k], page_sizes[k])
\* the number of samples whose raw margin on edge e is at least the
\* aggregated margin of that edge
SamplesNotCutInto(e) ==
    Cardinality({k \in 1..Len(content_boxes) : RLe(suggested[e], RawMargin(e, k))})
\* the smallest integer that is at least n / d, for n >= 0 and d > 0
CeilDiv(n, d) == (n + d - 1) \div d

\* C15 as stated: on each edge the aggregated margin is at most the raw
\* margin of at least 75% of the samples.
C15_AsStated ==
    apc = "done" =>
        \A e \in 1..4 : 4 * SamplesNotCutInto(e) >= 3 * Len(content_boxes)

\* C15: on each edge the aggregated margin is at most the raw margin of all
\* but ceil((n - 1) / 4) of the n samples at most.
C15_UnderCropping ==
    apc = "done" =>
        \A e \in 1..4 :
            SamplesNotCutInto(e) >= Len(content_boxes) - CeilDiv(Len(content_boxes) - 1, 4)

\* C15 witness: three samples with three different left margins and a
\* positive aggregated left margin that cuts into one of them.
C15_Witness ==
    /\ apc = "done"
    /\ Len(content_boxes) = 3
    /\ Cardinality({left_margin(content_boxes[k], page_sizes[k]) : k \in 1..3}) = 3
    /\ RLt(Zero, suggested[1])
    /\ SamplesNotCutInto(1) = 2

\* analyze_pdf_margins on a document of five or more pages, all alike but one
OutlierInit ==
    /\ DetectIdle
    /\ doc \in UNION {OnePageOdd(n) : n \in 5..MaxOutlierPages}
    /\ buffer \in Buffers
    /\ footer_height_ratio = DEFAULT_FOOTER
    /\ content_boxes = <<>>
    /\ page_sizes = <<>>
    /\ suggested = <<>>
    /\ apc = "sampling"
    /\ CropIdle
    /\ GuiOff

SpecOutlier == OutlierInit /\ [][MarginsNext]_vars

\* sample k is blank: its raw margins are 0 on all edges
BlankSample(k) == \A e \in 1..4 : RawMargin(e, k) = Zero
\* the samples are five or more, exactly one of them blank
OneBlankSample ==
    /\ Len(content_boxes) >= 5
    /\ Cardinality({k \in 1..Len(content_boxes) : BlankSample(k)}) = 1

\* C14: with five or more samples of which exactly one is blank, an edge on
\* which all other samples have the same raw margin m gets the aggregated
\* margin max(0, m - buffer).
C14_OneOutlierIgnored ==
    (apc = "done" /\ OneBlankSample) =>
        \A e \in 1..4 :
            \A j \in {k \in 1..Len(content_boxes) : ~BlankSample(k)} :
                (\A k \in 1..Len(content_boxes) :
                    ~BlankSample(k) => RawMargin(e, k) = RawMargin(e, j))
                => suggested[e] = RMax(Zero, RSub(RawMargin(e, j), buffer))

\* C14 witness: five samples, the third one blank, the others with the same
\* left margin above the buffer, aggregated to a positive left margin.
C14_Witness ==
    /\ apc = "done"
    /\ Len(content_boxes) = 5
    /\ OneBlankSample
    /\ BlankSample(3)
    /\ \A k \in {1, 2, 4, 5} : RawMargin(1, k) = RawMargin(1, 1)
    /\ RLt(buffer, RawMargin(1, 1))
    /\ RLt(Zero, suggested[1])

-----------------------------------------------------------------------------
(* Claims about crop_pdf, checked under SpecCrop.                          *)

\* the cropped width and height of page k as the claims give them:
\* pageWidth * (1 - left - right) and pageHeight * (1 - top - bottom)
CroppedWidthOf(k) ==
    RMul(RectWidth(doc[k].rect), RSub(RSub(One, crop[1]), crop[3]))
CroppedHeightOf(k) ==
    RMul(RectHeight(doc[k].rect), RSub(RSub(One, crop[2]), crop[4]))
Measured == cpc \in {"pass2", "done"}

\* C7: the canvas width (height) is the largest cropped width (height) of
\* the pages, the cropped width (height) of at least one page.
C7_CanvasIsMaxCropped ==
    Measured =>
        /\ \A k \in 1..Len(doc) : RLe(CroppedWidthOf(k), max_width)
        /\ \E k \in 1..Len(doc) : CroppedWidthOf(k) = max_width
        /\ \A k \in 1..Len(doc) : RLe(CroppedHeightOf(k), max_height)
        /\ \E k \in 1..Len(doc) : CroppedHeightOf(k) = max_height

C10_OnePagePerPageUniformSize ==
    /\ \A k \in 1..Len(output_doc) :
        /\ output_doc[k].src = k - 1
        /\ output_doc[k].width = max_width
        /\ output_doc[k].height = max_height
    /\ cpc = "done" =>
        /\ Len(output_doc) = Len(doc)
        /\ page_counts = <<Len(doc), Len(doc)>>

\* C10 witness: a finished crop of three pages of two different cropped sizes.
C10_Witness ==
    /\ cpc = "done"
    /\ Len(doc) = 3
    /\ \E j, k \in 1..3 :
        /\ RLt(Zero, CroppedWidthOf(j))
        /\ RLt(CroppedWidthOf(j), CroppedWidthOf(k))
        /\ RLt(CroppedHeightOf(j), CroppedHeightOf(k))

\* C11: no page is scaled down: a page whose cropped width and height are
\* both positive is no larger than the canvas, and its scale is at least 1.
C11_NeverDownscaled ==
    \A k \in 1..Len(output_doc) :
        (RLt(Zero, CroppedWidthOf(k)) /\ RLt(Zero, CroppedHeightOf(k))) =>
            /\ RLe(CroppedWidthOf(k), max_width)
            /\ RLe(CroppedHeightOf(k), max_height)
            /\ output_doc[k].scale =
                    RMin(RDiv(max_width, CroppedWidthOf(k)),
                         RDiv(max_height, CroppedHeightOf(k)))
            /\ RLe(One, output_doc[k].scale)

\* C11 witness: a page of positive cropped size placed with scale 1 and
\* another one, smaller, placed with a scale above 1.
C11_Witness ==
    \E j, k \in 1..Len(output_doc) :
        /\ RLt(Zero, CroppedWidthOf(j)) /\ RLt(Zero, CroppedHeightOf(j))
        /\ RLt(Zero, CroppedWidthOf(k)) /\ RLt(Zero, CroppedHeightOf(k))
        /\ output_doc[j].scale = One
        /\ RLt(One, output_doc[k].scale)

\* C12: a page whose cropped width or cropped height is zero is placed with
\* scale exactly 1 (no quotient with a zero divisor is formed).
C12_DegenerateScaleIsOne ==
    \A k \in 1..Len(output_doc) :
        (CroppedWidthOf(k) = Zero \/ CroppedHeightOf(k) = Zero) =>
            /\ output_doc[k].scale = One
            /\ output_doc[k].scale[2] # 0

\* C12 witness: pages placed with cropped width zero, one with a positive
\* cropped height below the canvas height and one with a negative one.
C12_Witness ==
    /\ \E k \in 1..Len(output_doc) :
        /\ CroppedWidthOf(k) = Zero
        /\ RLt(Zero, CroppedHeightOf(k))
        /\ RLt(CroppedHeightOf(k), max_height)
    /\ cpc = "done"

\* C13: a page of positive cropped size keeps its aspect ratio
\* (targetWidth * croppedHeight = targetHeight * croppedWidth) and is
\* centred: each offset is (canvas size - cropped size * scale) / 2.
C13_AspectKeptAndCentred ==
    \A k \in 1..Len(output_doc) :
        (RLt(Zero, CroppedWidthOf(k)) /\ RLt(Zero, CroppedHeightOf(k))) =>
            LET o == output_doc[k]
                target_width == RSub(o.target_rect.x1, o.target_rect.x0)
                target_height == RSub(o.target_rect.y1, o.target_rect.y0)
            IN  /\ RMul(target_width, CroppedHeightOf(k)) =
                        RMul(target_height, CroppedWidthOf(k))
                /\ target_width = RMul(CroppedWidthOf(k), o.scale)
                /\ target_height = RMul(CroppedHeightOf(k), o.scale)
                /\ o.offset_x = RDiv(RSub(max_width, RMul(CroppedWidthOf(k), o.scale)), RInt(2))
                /\ o.offset_y = RDiv(RSub(max_height, RMul(CroppedHeightOf(k), o.scale)), RInt(2))
                /\ o.target_rect.x0 = o.offset_x
                /\ o.target_rect.y0 = o.offset_y

\* C13 witness: a page of positive cropped size enlarged until its width
\* fills the canvas, with free space above and below it.
C13_Witness ==
    \E k \in 1..Len(output_doc) :
        /\ RLt(Zero, CroppedWidthOf(k)) /\ RLt(Zero, CroppedHeightOf(k))
        /\ RLt(One, output_doc[k].scale)
        /\ output_doc[k].offset_x = Zero
        /\ RLt(Zero, output_doc[k].offset_y)

-----------------------------------------------------------------------------
(* Claims about PDFCropGUI.crop_pdf, checked under SpecManual.             *)

\* round(x) for the widths and heights of the claim: the nearest integer, a
\* half going to the even neighbour
NearestInt(x) ==
    LET twice == (2 * x[1]) \div x[2]
        exact == (2 * x[1]) % x[2] = 0
    IN  IF exact /\ twice % 2 = 1
        THEN IF ((twice - 1) \div 2) % 2 = 0 THEN (twice - 1) \div 2 ELSE (twice + 1) \div 2
        ELSE (twice + 1) \div 2
ClaimSize(k) ==
    <<NearestInt(RSub(doc[k].rect.x1, doc[k].rect.x0)),
      NearestInt(RSub(doc[k].rect.y1, doc[k].rect.y0))>>
ClaimCount(sz) == Cardinality({k \in 1..Len(doc) : ClaimSize(k) = sz})
\* the rounded sizes no other rounded size is more common than
MostCommonSizes ==
    {ClaimSize(k) : k \in {j \in 1..Len(doc) :
                            \A i \in 1..Len(doc) : ClaimCount(ClaimSize(i)) <= ClaimCount(ClaimSize(j))}}

\* C9: after the explicit-rectangle crop, page k is replaced by a page of the
\* crop rectangle's size exactly when k is in [min_page, max_page] and its
\* rounded size is the most common one; every other page is inserted as it
\* is; the order is kept and croppedCount + unchangedCount = n.
C9_ManualCropGate ==
    gpc = "saved" =>
        /\ Len(out_pages) = Len(doc)
        /\ cropped_pages + unchanged_pages = Len(doc)
        /\ cropped_pages = Cardinality({k \in 1..Len(doc) : out_pages[k].kind = "cropped"})
        /\ \E common \in MostCommonSizes :
            \A k \in 1..Len(doc) :
                /\ out_pages[k].src = k - 1
                /\ out_pages[k].kind = "cropped" <=>
                        (min_page <= k /\ k <= max_page /\ ClaimSize(k) = common)
                /\ out_pages[k].kind = "cropped" =>
                        /\ out_pages[k].width = RSub(gui_crop_rect.x1, gui_crop_rect.x0)
                        /\ out_pages[k].height = RSub(gui_crop_rect.y1, gui_crop_rect.y0)
                /\ out_pages[k].kind # "cropped" =>
                        /\ out_pages[k].kind = "verbatim"
                        /\ out_pages[k].width = RSub(doc[k].rect.x1, doc[k].rect.x0)
                        /\ out_pages[k].height = RSub(doc[k].rect.y1, doc[k].rect.y0)

\* C9 witness: a saved crop of three pages: one cropped, one of the most
\* common size left as it is because it is out of the range, and one in the
\* range left as it is because its size is not the most common one.
C9_Witness ==
    /\ gpc = "saved"
    /\ Len(doc) = 3
    /\ cropped_pages = 1
    /\ \E k \in 1..3 : (k < min_page \/ k > max_page) /\ ClaimSize(k) = most_common_size
    /\ \E k \in 1..3 : min_page <= k /\ k <= max_page /\ ClaimSize(k) # most_common_size

-----------------------------------------------------------------------------
(* Claims about the selection and the navigation of the GUI, checked under *)
(* SpecGui.                                                                *)

\* C16: after a completed drag, and whatever prev_page, next_page,
\* update_page_range and toggle_preview_mode events follow it, the view's
\* crop_rect is the selection drawn last.
C16_SelectionSurvivesReload ==
    drawn # None => view_crop_rect = drawn

\* C17: the page shown is a page of the document, min_page <= max_page, and
\* in the preview of the crop range the page shown lies inside the range.
C17_PageAndRangeInvariant ==
    /\ 0 <= current_page /\ current_page < Len(doc)
    /\ min_page <= max_page
    /\ preview_crop_range_only =>
            (min_page <= current_page + 1 /\ current_page + 1 <= max_page)

====
